---- MODULE Spec2Model ----
(***************************************************************************)
(* Model of the RK3588 TSADC drivers of gedulab/ddd:                       *)
(*   src/day2/tsadc.c           character-device driver (tsadc_dev)        *)
(*   src/day2/tsadc_platform.c  platform / thermal-zone driver             *)
(*   src/day2/app.c             the user-space consumer                    *)
(* Registers are 32-bit unsigned integers; bit n of a register is BIT(n). *)
(***************************************************************************)
EXTENDS Integers, Naturals, Sequences, FiniteSets, TLC

(* ------------------------------ bounds --------------------------------- *)
NumConsumers == 2
MaxOps == 4
CodeMargin == 4

(* ------------------------- program constants --------------------------- *)
TSADC_MAX_CHANNELS == 8
TSADC_DATA_MASK == 4095
EAGAIN == 11
EFAULT == 14
EINVAL == 22
ENOTTY == 25
POLLIN == 1
POLLRDNORM == 64
DEFAULT_THRESHOLD == 85
FLOOR_SENTINEL == -40
MIN_READ_LEN == 12
PLAT_FLOOR_SENTINEL == -40000
ENOMEM == 12

Channels == 0 .. (TSADC_MAX_CHANNELS - 1)

(* --------------------------- bit arithmetic ---------------------------- *)
BIT(n) == 2 ^ n

(* A u32 is kept as its four bytes, least significant first, so that no   *)
(* intermediate value leaves the range of the checker's integers.          *)
(* ToU32 is the conversion of a C int to u32.                              *)
ToU32(x) ==
    IF x >= 0
    THEN << x % 256, (x \div 256) % 256, (x \div 65536) % 256,
            (x \div 16777216) % 256 >>
    ELSE LET y == (0 - x) - 1 IN
         << 255 - (y % 256), 255 - ((y \div 256) % 256),
            255 - ((y \div 65536) % 256), 255 - ((y \div 16777216) % 256) >>

(* Conversion of a u32 to a C int (two's complement). *)
ToS32(a) ==
    IF a[4] < 128
    THEN a[1] + 256 * a[2] + 65536 * a[3] + 16777216 * a[4]
    ELSE 0 - ((255 - a[1]) + 256 * (255 - a[2]) + 65536 * (255 - a[3])
              + 16777216 * (255 - a[4])) - 1

(* a + b modulo 2^32 *)
AddU32(a, b) ==
    LET s1 == a[1] + b[1]
        s2 == a[2] + b[2] + s1 \div 256
        s3 == a[3] + b[3] + s2 \div 256
        s4 == a[4] + b[4] + s3 \div 256
    IN  << s1 % 256, s2 % 256, s3 % 256, s4 % 256 >>

(* a - b modulo 2^32 *)
SubU32(a, b) ==
    AddU32(a, AddU32(<< 255 - b[1], 255 - b[2], 255 - b[3], 255 - b[4] >>,
                     ToU32(1)))

(* a * b modulo 2^32 *)
MulU32(a, b) ==
    LET p1 == a[1] * b[1]
        p2 == a[1] * b[2] + a[2] * b[1] + p1 \div 256
        p3 == a[1] * b[3] + a[2] * b[2] + a[3] * b[1] + p2 \div 256
        p4 == a[1] * b[4] + a[2] * b[3] + a[3] * b[2] + a[4] * b[1]
              + p3 \div 256
    IN  << p1 % 256, p2 % 256, p3 % 256, p4 % 256 >>

(* Truncating a / d for a divisor 0 < d < 2^23 given as an integer (the    *)
(* difference of two adjacent table codes).                                *)
DivU32(a, d) ==
    LET r4 == a[4]
        r3 == (r4 % d) * 256 + a[3]
        r2 == (r3 % d) * 256 + a[2]
        r1 == (r2 % d) * 256 + a[1]
    IN  << (r1 \div d) % 256, (r2 \div d) % 256, (r3 \div d) % 256,
           (r4 \div d) % 256 >>

HasBit(v, n) == (v \div BIT(n)) % 2 = 1

RECURSIVE BitAnd(_, _)
BitAnd(a, b) ==
    IF a = 0 \/ b = 0 THEN 0
    ELSE (IF a % 2 = 1 /\ b % 2 = 1 THEN 1 ELSE 0)
         + 2 * BitAnd(a \div 2, b \div 2)

TSADC_AUTO_CON_START == BIT(0)

TSADC_AUTO_CON_SRC_EN(chn) == BIT(4 + chn)

TSADC_INT_SRC_EN(chn) == BIT(chn)

TSADC_INT_SRC_MASK(chn) == BIT(chn)

(* Register offsets of the character driver. *)
TSADC_DATA(chn) == 44 + chn * 4

TSADC_COMP_INT(chn) == 48 + chn * 4

(* The same two offsets in the register map of tsadc_platform.c. *)
PLAT_TSADC_DATA(chn) == 32 + chn * 4

PLAT_TSADC_COMP_INT(chn) == 48 + chn * 4

(* ------------------------- calibration tables -------------------------- *)
(* C index i of a table is element i + 1 of the sequence. *)
default_code_table ==
    << [temp |-> 125, code |-> 395], [temp |-> 85, code |-> 350],
       [temp |-> 25, code |-> 285], [temp |-> -40, code |-> 215] >>

trm_code_table ==
    << [temp |-> -40, code |-> 3800], [temp |-> -30, code |-> 3630],
       [temp |-> -20, code |-> 3440], [temp |-> -10, code |-> 3240],
       [temp |-> 0, code |-> 3020], [temp |-> 10, code |-> 2790],
       [temp |-> 20, code |-> 2550], [temp |-> 30, code |-> 2290],
       [temp |-> 40, code |-> 2020], [temp |-> 50, code |-> 1730],
       [temp |-> 60, code |-> 1420], [temp |-> 70, code |-> 1090],
       [temp |-> 80, code |-> 740], [temp |-> 90, code |-> 360],
       [temp |-> 100, code |-> -50], [temp |-> 110, code |-> -530] >>

(* rk3588_code_table of tsadc.c depends on the build switch TRY_AI_BUG. *)
rk3588_code_table(bug) == IF bug THEN trm_code_table ELSE default_code_table

Entry(T, i) == T[i + 1]

(* The test of the while loop that ends it through break. *)
InBracket_strict(T, code, m) ==
    code > Entry(T, m).code /\ code < Entry(T, m - 1).code

InBracket(T, code, m) ==
    code >= Entry(T, m).code /\ code <= Entry(T, m - 1).code

(* The while loop of code_to_temp: the index mid it ends with. *)
RECURSIVE BinSearch(_, _, _, _, _)
BinSearch(T, code, low, high, mid) ==
    IF low > high THEN [mid |-> mid, broke |-> FALSE]
    ELSE LET m == (low + high) \div 2 IN
         IF InBracket(T, code, m)
         THEN [mid |-> m, broke |-> TRUE]
         ELSE IF code > Entry(T, m).code
              THEN BinSearch(T, code, low, m - 1, m)
              ELSE BinSearch(T, code, m + 1, high, m)

(* The first range test of the conversion: the code lies beyond entry 0. *)
AboveRange_inclusive(T, code) == code >= Entry(T, 0).code

AboveRange(T, code) == code > Entry(T, 0).code

(* The second range test: the code lies below the last entry. *)
BelowRange_offbyone(T, code) == code < Entry(T, Len(T) - 1).code - 1

BelowRange(T, code) == code < Entry(T, Len(T) - 1).code

(* The u32 product and quotient of the interpolation:                      *)
(* ((code - table[mid].code) * num) / den.                                 *)
InterpStep_roundup(T, code, mid) ==
    LET num == ToU32(Entry(T, mid - 1).temp - Entry(T, mid).temp)
        den == ToU32(Entry(T, mid - 1).code - Entry(T, mid).code)
        prod == MulU32(ToU32(code - Entry(T, mid).code), num)
    IN  DivU32(AddU32(prod, ToU32(ToS32(den) - 1)), ToS32(den))

InterpStep(T, code, mid) ==
    LET num == ToU32(Entry(T, mid - 1).temp - Entry(T, mid).temp)
        den == ToU32(Entry(T, mid - 1).code - Entry(T, mid).code)
        prod == MulU32(ToU32(code - Entry(T, mid).code), num)
    IN  DivU32(prod, ToS32(den))

(* code_to_temp of tsadc.c: ret is 0, -EAGAIN or -EINVAL; written tells    *)
(* whether *temp was assigned, temp is the value assigned.                 *)
code_to_temp(T, code) ==
    IF AboveRange(T, code)
    THEN [ret |-> -EAGAIN, temp |-> 0, mid |-> 0, broke |-> FALSE,
          written |-> FALSE]
    ELSE IF BelowRange(T, code)
    THEN [ret |-> -EINVAL, temp |-> 0, mid |-> 0, broke |-> FALSE,
          written |-> FALSE]
    ELSE LET found == BinSearch(T, code, 1, Len(T) - 1, 1)
             mid == found.mid
         IN  [ret |-> 0, broke |-> found.broke,
              temp |-> ToS32(AddU32(InterpStep(T, code, mid),
                                    ToU32(Entry(T, mid).temp))),
              mid |-> mid, written |-> TRUE]

(* rk3588_tsadc_code_to_temp of tsadc_platform.c: the same search, the     *)
(* quotient subtracted from table[mid - 1].temp.                           *)
rk3588_tsadc_code_to_temp(T, code) ==
    IF AboveRange(T, code)
    THEN [ret |-> -EAGAIN, temp |-> 0, mid |-> 0, broke |-> FALSE,
          written |-> FALSE]
    ELSE IF BelowRange(T, code)
    THEN [ret |-> -EINVAL, temp |-> 0, mid |-> 0, broke |-> FALSE,
          written |-> FALSE]
    ELSE LET found == BinSearch(T, code, 1, Len(T) - 1, 1)
             mid == found.mid
         IN  [ret |-> 0, broke |-> found.broke,
              temp |-> ToS32(SubU32(ToU32(Entry(T, mid - 1).temp),
                                    InterpStep(T, code, mid))),
              mid |-> mid, written |-> TRUE]

(* rk3588_tsadc_get_temp of tsadc_platform.c on the raw register value.    *)
rk3588_tsadc_get_temp(raw) ==
    LET r == rk3588_tsadc_code_to_temp(trm_code_table,
                                       BitAnd(raw, TSADC_DATA_MASK))
    IN  IF r.ret = -EAGAIN
        THEN [ret |-> 0, temp |-> PLAT_FLOOR_SENTINEL, written |-> TRUE]
        ELSE [ret |-> r.ret, temp |-> r.temp, written |-> r.written]

(* temp_to_code of tsadc.c: first bracket found by the linear scan. *)
RECURSIVE TempScan(_, _, _)
TempScan(T, temp, i) ==
    IF i >= Len(T) - 1 THEN Entry(T, 0).code
    ELSE IF temp <= Entry(T, i).temp /\ temp > Entry(T, i + 1).temp
         THEN Entry(T, i).code
         ELSE TempScan(T, temp, i + 1)

temp_to_code(T, temp) == TempScan(T, temp, 0)

(* sprintf(kbuf, "%d\n", v): the characters written. *)
RECURSIVE Digits(_)
Digits(n) ==
    IF n < 10 THEN << <<"0","1","2","3","4","5","6","7","8","9">>[n + 1] >>
    ELSE Digits(n \div 10)
         \o << <<"0","1","2","3","4","5","6","7","8","9">>[(n % 10) + 1] >>

FormatTemp(v) ==
    (IF v < 0 THEN <<"-">> \o Digits(0 - v) ELSE Digits(v)) \o <<"\n">>


(* ------------------------------- inputs -------------------------------- *)
Consumers == 1 .. NumConsumers

(* Channel ids a caller may pass to TSADC_SET_CHANNEL. *)
ChannelIds == -1 .. TSADC_MAX_CHANNELS

(* Threshold temperatures a caller may pass to TSADC_SET_INT_THRESHOLD. *)
Temps == {30, 90}

(* Raw values the data register may hold when it is sampled. *)
RawCodes == {100, 350, 396}

ReadLens == {11, 16}

READABLE == POLLIN + POLLRDNORM

(* ------------------------------- state --------------------------------- *)
VARIABLES
    TRY_AI_BUG,          \* build switch of tsadc.c
    loaded,              \* tsadc_char_init has returned 0, tsadc_char_exit not yet run
    current_channel,     \* struct tsadc_dev
    int_threshold_temp,
    irq_fired,
    waitq,               \* consumers queued on dev->waitq
    reg_auto_con,        \* hardware registers of the character driver
    reg_int_en,
    reg_int_pd,
    reg_comp_int,
    isr_pc,              \* tsadc_isr: position, local val, value written to INT_PD
    isr_val,
    isr_wr,
    isr_reads,
    pc,                  \* per consumer: position in poll()/my_poll
    mask,
    woken,
    io_ret,              \* last my_ioctl: return value, value copied to the user
    io_out,
    off,                 \* the open file: offset, last my_read result
    rd_ret,
    rd_text,
    rd_sampled,          \* the last my_read read the data register
    p_bound,             \* rk3588_tsadc_probe has returned 0
    chip_id,             \* platform driver: chip->id, its INT_PD, rk3588_tsadc_irq
    p_int_pd,
    p_pc,
    p_val,
    p_wr,
    p_reads,
    tz_updated,
    nOps,                \* operations started so far (calls and handler runs)
    lastSet,             \* id of the most recent successful SET_CHANNEL (history)
    observers,           \* positive tests of irq_fired since the last dispatch set it
    evt_chans,           \* channels dispatched since irq_fired was last cleared
    cv_in,               \* conversion under test: the integer passed in
    cv_out,              \* ... and the result of each function applied to it
    at_drv,              \* attach / detach under test: "char", "plat" or "none"
    at_pc,               \* ... its phase
    at_fail,             \* ... the call that fails, or "none"
    at_todo,             \* ... the steps still ahead in the current phase
    at_log,              \* ... acquisitions, releases and writes done, in order
    at_ret               \* ... the value returned by the attach function

devVars == << current_channel, int_threshold_temp, irq_fired, waitq >>

regVars == << reg_auto_con, reg_int_en, reg_int_pd, reg_comp_int >>

isrVars == << isr_pc, isr_val, isr_wr, isr_reads >>

pollVars == << pc, mask, woken >>

ioVars == << io_ret, io_out, nOps, lastSet >>

readVars == << off, rd_ret, rd_text, rd_sampled >>

platVars == << p_bound, chip_id, p_int_pd, p_pc, p_val, p_wr, p_reads, tz_updated >>

ghostVars == << observers, evt_chans >>

convVars == << cv_in, cv_out >>

attachVars == << at_drv, at_pc, at_fail, at_todo, at_log, at_ret >>

baseVars == << loaded, devVars, regVars, isrVars, pollVars, ioVars,
               readVars, platVars, ghostVars >>

vars == << TRY_AI_BUG, baseVars, convVars, attachVars >>

(* The character driver's state after a successful tsadc_char_init        *)
(* (kzalloc zeroes the structure); bound says whether the module is loaded.*)
InitChar(bound) ==
    /\ TRY_AI_BUG \in BOOLEAN
    /\ loaded = bound
    /\ current_channel = 0
    /\ int_threshold_temp = DEFAULT_THRESHOLD
    /\ irq_fired = FALSE
    /\ waitq = {}
    /\ reg_auto_con = TSADC_AUTO_CON_START + TSADC_AUTO_CON_SRC_EN(0)
    /\ reg_int_en = 0
    /\ reg_int_pd = 0
    /\ reg_comp_int = [ch \in Channels |-> 0]
    /\ isr_pc = "idle" /\ isr_val = 0 /\ isr_wr = 0 /\ isr_reads = 0
    /\ pc = [c \in Consumers |-> "idle"]
    /\ mask = [c \in Consumers |-> 0]
    /\ woken = [c \in Consumers |-> FALSE]
    /\ io_ret = 0 /\ io_out = 0 /\ nOps = 0 /\ lastSet = 0
    /\ off = 0 /\ rd_ret = 0 /\ rd_text = << >> /\ rd_sampled = FALSE
    /\ observers = 0 /\ evt_chans = {}

(* The platform driver's state after a successful rk3588_tsadc_probe for   *)
(* sensor id.                                                              *)
InitPlat(bound, id) ==
    /\ p_bound = bound
    /\ chip_id = id
    /\ p_int_pd = 0
    /\ p_pc = "idle" /\ p_val = 0 /\ p_wr = 0 /\ p_reads = 0
    /\ tz_updated = FALSE

(* The functions whose conversion of one code is recorded in cv_out. *)
ConvFns == { "code_to_temp", "rk3588_tsadc_code_to_temp", "my_read",
             "rk3588_tsadc_get_temp", "temp_to_code" }

NotApplied == [applied |-> FALSE, ret |-> 0, temp |-> 0, written |-> FALSE,
               mid |-> 0, broke |-> FALSE]

(* No conversion is under test. *)
IdleConv ==
    /\ cv_in = 0
    /\ cv_out = [f \in ConvFns |-> NotApplied]

(* No attach or detach is under test: the driver is bound or absent. *)
IdleAttach ==
    /\ at_drv = "none" /\ at_pc = "idle" /\ at_fail = "none"
    /\ at_todo = << >> /\ at_log = << >> /\ at_ret = 0

(* One of the two drivers owns the TSADC block. *)
Init ==
    /\ \/ InitChar(TRUE) /\ InitPlat(FALSE, 0)
       \/ InitChar(FALSE) /\ \E id \in Channels : InitPlat(TRUE, id)
    /\ IdleConv
    /\ IdleAttach

(* ------------------------- my_ioctl (tsadc.c) -------------------------- *)
(* Variants of the range check used to probe the properties below. *)
SetChannelValid_offbyone(channel) ==
    ~(channel < 0 \/ channel > TSADC_MAX_CHANNELS)

SetChannelValid_noneg(channel) == ~(channel >= TSADC_MAX_CHANNELS)

(* The range check of TSADC_SET_CHANNEL. *)
SetChannelValid(channel) == ~(channel < 0 \/ channel >= TSADC_MAX_CHANNELS)

(* The value TSADC_SET_CHANNEL leaves in TSADC_INT_EN: the register is not *)
(* written.                                                                *)
SetChannelIntEn_rearm(en, channel) == TSADC_INT_SRC_EN(channel)

SetChannelIntEn(en, channel) == en

(* fault: copy_from_user / copy_to_user fails on the user pointer. *)
ioctl_SET_CHANNEL(channel, fault) ==
    /\ loaded /\ nOps < MaxOps
    /\ nOps' = nOps + 1
    /\ io_out' = io_out
    /\ IF fault
       THEN /\ io_ret' = -EFAULT
            /\ UNCHANGED << current_channel, lastSet, reg_int_en >>
       ELSE IF ~SetChannelValid(channel)
       THEN /\ io_ret' = -EINVAL
            /\ UNCHANGED << current_channel, lastSet, reg_int_en >>
       ELSE /\ current_channel' = channel
            /\ lastSet' = channel
            /\ reg_int_en' = SetChannelIntEn(reg_int_en, channel)
            /\ io_ret' = 0
    /\ UNCHANGED << TRY_AI_BUG, loaded, int_threshold_temp, irq_fired, waitq,
                    reg_auto_con, reg_int_pd, reg_comp_int, isrVars, pollVars,
                    readVars, platVars, ghostVars,
                    convVars, attachVars >>

ioctl_GET_CHANNEL(fault) ==
    /\ loaded /\ nOps < MaxOps
    /\ nOps' = nOps + 1
    /\ IF fault
       THEN io_ret' = -EFAULT /\ io_out' = io_out
       ELSE io_ret' = 0 /\ io_out' = current_channel
    /\ UNCHANGED << TRY_AI_BUG, loaded, devVars, regVars, isrVars, pollVars,
                    lastSet, readVars, platVars, ghostVars,
                    convVars, attachVars >>

ThresholdChannel_zero(active) == 0

(* The comparator register written by TSADC_SET_INT_THRESHOLD. *)
ThresholdChannel(active) == active

(* The value TSADC_SET_INT_THRESHOLD writes to TSADC_INT_EN. *)
ThresholdIntEn(active) == TSADC_INT_SRC_EN(active)

ioctl_SET_INT_THRESHOLD(temp, fault) ==
    /\ loaded /\ nOps < MaxOps
    /\ nOps' = nOps + 1
    /\ io_out' = io_out
    /\ IF fault
       THEN /\ io_ret' = -EFAULT
            /\ UNCHANGED << int_threshold_temp, reg_comp_int, reg_int_en >>
       ELSE /\ int_threshold_temp' = temp
            /\ reg_comp_int' =
                 [reg_comp_int EXCEPT ![ThresholdChannel(current_channel)] =
                     temp_to_code(rk3588_code_table(TRY_AI_BUG), temp)]
            /\ reg_int_en' = ThresholdIntEn(current_channel)
            /\ io_ret' = 0
    /\ UNCHANGED << TRY_AI_BUG, loaded, current_channel, irq_fired, waitq,
                    reg_auto_con, reg_int_pd, isrVars, pollVars, lastSet,
                    readVars, platVars, ghostVars,
                    convVars, attachVars >>

ioctl_default ==
    /\ loaded /\ nOps < MaxOps
    /\ nOps' = nOps + 1
    /\ io_ret' = -ENOTTY
    /\ io_out' = io_out
    /\ UNCHANGED << TRY_AI_BUG, loaded, devVars, regVars, isrVars, pollVars,
                    lastSet, readVars, platVars, ghostVars,
                    convVars, attachVars >>

my_ioctl ==
    \/ \E channel \in ChannelIds, fault \in BOOLEAN :
          ioctl_SET_CHANNEL(channel, fault)
    \/ \E fault \in BOOLEAN : ioctl_GET_CHANNEL(fault)
    \/ \E temp \in Temps, fault \in BOOLEAN :
          ioctl_SET_INT_THRESHOLD(temp, fault)
    \/ ioctl_default

(* ------------------- my_read and lseek (tsadc.c, app.c) ---------------- *)
(* The early return of my_read: nothing is sampled, 0 is returned. *)
ReadAtEof_nooffset(offset, len) == len < MIN_READ_LEN

ReadAtEof(offset, len) == offset > 0 \/ len < MIN_READ_LEN

(* The conversion results my_read returns to the caller as an error. *)
ReadSurfaces_every(ret) == ret # 0

ReadSurfaces(ret) == ret # 0 /\ ret # -EAGAIN

(* The sampling part of my_read: the data register value raw is masked and *)
(* converted; a conversion that is not ready is replaced by the floor.     *)
ReadTemp(T, raw) ==
    LET r == code_to_temp(T, BitAnd(raw, TSADC_DATA_MASK))
    IN  IF r.ret = -EAGAIN
        THEN [ret |-> r.ret, temp |-> FLOOR_SENTINEL]
        ELSE [ret |-> r.ret, temp |-> r.temp]

my_read(len, raw, fault) ==
    /\ loaded /\ nOps < MaxOps
    /\ nOps' = nOps + 1
    /\ rd_sampled' = ~ReadAtEof(off, len)
    /\ IF ReadAtEof(off, len)
       THEN rd_ret' = 0 /\ UNCHANGED << off, rd_text >>
       ELSE LET r == ReadTemp(rk3588_code_table(TRY_AI_BUG), raw)
                kbuf == FormatTemp(r.temp)
            IN  IF ReadSurfaces(r.ret)
                THEN rd_ret' = r.ret /\ UNCHANGED << off, rd_text >>
                ELSE IF fault
                THEN rd_ret' = -EFAULT /\ UNCHANGED << off, rd_text >>
                ELSE /\ rd_text' = kbuf
                     /\ off' = off + Len(kbuf)
                     /\ rd_ret' = Len(kbuf)
    /\ UNCHANGED << TRY_AI_BUG, loaded, devVars, regVars, isrVars, pollVars,
                    io_ret, io_out, lastSet, platVars, ghostVars,
                    convVars, attachVars >>

(* lseek(fd, 0, SEEK_SET) of the consumer's read loop. *)
lseek_set0 ==
    /\ loaded
    /\ off # 0
    /\ off' = 0
    /\ UNCHANGED << TRY_AI_BUG, loaded, devVars, regVars, isrVars, pollVars,
                    ioVars, rd_ret, rd_text, rd_sampled, platVars, ghostVars,
                    convVars, attachVars >>

(* --------------------- hardware of the char driver --------------------- *)
(* The comparator of an interrupt-enabled channel trips: its pending bit   *)
(* is latched in TSADC_INT_PD.                                             *)
HwRaise(ch) ==
    /\ loaded
    /\ HasBit(reg_int_en, ch)
    /\ ~HasBit(reg_int_pd, ch)
    /\ reg_int_pd' = reg_int_pd + BIT(ch)
    /\ UNCHANGED << TRY_AI_BUG, loaded, devVars, reg_auto_con, reg_int_en,
                    reg_comp_int, isrVars, pollVars, ioVars, readVars,
                    platVars, ghostVars,
                    convVars, attachVars >>

(* --------------------------- tsadc_isr --------------------------------- *)
IsrAckValue_reread(val, pd) == pd

(* The value tsadc_isr writes back to TSADC_INT_PD. *)
IsrAckValue(val, pd) == val

(* The test of the pending value against the active channel. *)
IsrHit(val, chan) == BitAnd(val, TSADC_INT_SRC_MASK(chan)) # 0

(* Bits of a pending value, as a set of channels. *)
PendingChans(val) == {ch \in Channels : HasBit(val, ch)}

(* The handler is bound by request_irq only in the TRY_AI_BUG build. *)
IsrRead ==
    /\ loaded /\ TRY_AI_BUG /\ nOps < MaxOps
    /\ nOps' = nOps + 1
    /\ isr_pc = "idle"
    /\ reg_int_pd # 0
    /\ isr_val' = reg_int_pd
    /\ isr_reads' = 1
    /\ isr_pc' = "ack"
    /\ UNCHANGED << TRY_AI_BUG, loaded, devVars, regVars, isr_wr, pollVars,
                    io_ret, io_out, lastSet, readVars, platVars, ghostVars,
                    convVars, attachVars >>

(* TSADC_INT_PD is write-one-to-clear. *)
IsrAck ==
    /\ loaded
    /\ isr_pc = "ack"
    /\ isr_wr' = IsrAckValue(isr_val, reg_int_pd)
    /\ reg_int_pd' = reg_int_pd - BitAnd(reg_int_pd, isr_wr')
    /\ isr_pc' = "test"
    /\ UNCHANGED << TRY_AI_BUG, loaded, devVars, reg_auto_con, reg_int_en,
                    reg_comp_int, isr_val, isr_reads, pollVars, ioVars,
                    readVars, platVars, ghostVars,
                    convVars, attachVars >>

IsrTest_noflag ==
    /\ loaded
    /\ isr_pc = "test"
    /\ evt_chans' = evt_chans \cup PendingChans(isr_val)
    /\ IF IsrHit(isr_val, current_channel)
       THEN irq_fired' = irq_fired /\ isr_pc' = "wake" /\ observers' = 0
       ELSE irq_fired' = irq_fired /\ isr_pc' = "idle"
            /\ observers' = observers
    /\ UNCHANGED << TRY_AI_BUG, loaded, current_channel, int_threshold_temp,
                    waitq, regVars, isr_val, isr_wr, isr_reads, pollVars,
                    ioVars, readVars, platVars,
                    convVars, attachVars >>

IsrTest ==
    /\ loaded
    /\ isr_pc = "test"
    /\ evt_chans' = evt_chans \cup PendingChans(isr_val)
    /\ IF IsrHit(isr_val, current_channel)
       THEN irq_fired' = TRUE /\ isr_pc' = "wake" /\ observers' = 0
       ELSE irq_fired' = irq_fired /\ isr_pc' = "idle"
            /\ observers' = observers
    /\ UNCHANGED << TRY_AI_BUG, loaded, current_channel, int_threshold_temp,
                    waitq, regVars, isr_val, isr_wr, isr_reads, pollVars,
                    ioVars, readVars, platVars,
                    convVars, attachVars >>

(* wake_up_interruptible(&dev->waitq) *)
IsrWake ==
    /\ loaded
    /\ isr_pc = "wake"
    /\ woken' = [c \in Consumers |-> woken[c] \/ c \in waitq]
    /\ isr_pc' = "idle"
    /\ UNCHANGED << TRY_AI_BUG, loaded, devVars, regVars, isr_val, isr_wr,
                    isr_reads, pc, mask, ioVars, readVars, platVars,
                    ghostVars,
                    convVars, attachVars >>

tsadc_isr == IsrRead \/ IsrAck \/ IsrTest \/ IsrWake


(* ------------------------- poll() and my_poll -------------------------- *)
(* A consumer enters poll(): my_poll runs poll_wait, which queues it. *)
PollWait_unqueued(c) ==
    /\ loaded /\ nOps < MaxOps
    /\ nOps' = nOps + 1
    /\ pc[c] = "idle"
    /\ waitq' = waitq
    /\ woken' = [woken EXCEPT ![c] = FALSE]
    /\ pc' = [pc EXCEPT ![c] = "test"]
    /\ UNCHANGED << TRY_AI_BUG, loaded, current_channel, int_threshold_temp,
                    irq_fired, regVars, isrVars, mask, io_ret, io_out,
                    lastSet, readVars, platVars, ghostVars,
                    convVars, attachVars >>

PollWait(c) ==
    /\ loaded /\ nOps < MaxOps
    /\ nOps' = nOps + 1
    /\ pc[c] = "idle"
    /\ waitq' = waitq \cup {c}
    /\ woken' = [woken EXCEPT ![c] = FALSE]
    /\ pc' = [pc EXCEPT ![c] = "test"]
    /\ UNCHANGED << TRY_AI_BUG, loaded, current_channel, int_threshold_temp,
                    irq_fired, regVars, isrVars, mask, io_ret, io_out,
                    lastSet, readVars, platVars, ghostVars,
                    convVars, attachVars >>

(* if (dev->irq_fired) mask |= POLLIN | POLLRDNORM; *)
PollTest(c) ==
    /\ loaded
    /\ pc[c] = "test"
    /\ IF irq_fired
       THEN /\ mask' = [mask EXCEPT ![c] = READABLE]
            /\ pc' = [pc EXCEPT ![c] = "clear"]
            /\ observers' = observers + 1
       ELSE /\ mask' = [mask EXCEPT ![c] = 0]
            /\ pc' = [pc EXCEPT ![c] = "ret"]
            /\ observers' = observers
    /\ UNCHANGED << TRY_AI_BUG, loaded, devVars, regVars, isrVars, woken,
                    ioVars, readVars, platVars, evt_chans,
                    convVars, attachVars >>

PollClear_keep(c) ==
    /\ loaded
    /\ pc[c] = "clear"
    /\ pc' = [pc EXCEPT ![c] = "ret"]
    /\ UNCHANGED << TRY_AI_BUG, loaded, devVars, regVars, isrVars, mask,
                    woken, ioVars, readVars, platVars, ghostVars,
                    convVars, attachVars >>

(* dev->irq_fired = false; *)
PollClear(c) ==
    /\ loaded
    /\ pc[c] = "clear"
    /\ irq_fired' = FALSE
    /\ evt_chans' = {}
    /\ pc' = [pc EXCEPT ![c] = "ret"]
    /\ UNCHANGED << TRY_AI_BUG, loaded, current_channel, int_threshold_temp,
                    waitq, regVars, isrVars, mask, woken, ioVars, readVars,
                    platVars, observers,
                    convVars, attachVars >>

(* return mask: a readable mask ends poll(), a zero mask puts the caller   *)
(* to sleep on the wait queue.                                             *)
PollReturn(c) ==
    /\ loaded
    /\ pc[c] = "ret"
    /\ IF mask[c] # 0
       THEN /\ pc' = [pc EXCEPT ![c] = "idle"]
            /\ waitq' = waitq \ {c}
            /\ woken' = [woken EXCEPT ![c] = FALSE]
       ELSE /\ pc' = [pc EXCEPT ![c] = "blocked"]
            /\ UNCHANGED << waitq, woken >>
    /\ UNCHANGED << TRY_AI_BUG, loaded, current_channel, int_threshold_temp,
                    irq_fired, regVars, isrVars, mask, ioVars, readVars,
                    platVars, ghostVars,
                    convVars, attachVars >>

(* A woken sleeper calls my_poll again; poll_wait does not queue it twice. *)
PollWake(c) ==
    /\ loaded
    /\ pc[c] = "blocked"
    /\ woken[c]
    /\ woken' = [woken EXCEPT ![c] = FALSE]
    /\ pc' = [pc EXCEPT ![c] = "test"]
    /\ UNCHANGED << TRY_AI_BUG, loaded, devVars, regVars, isrVars, mask,
                    ioVars, readVars, platVars, ghostVars,
                    convVars, attachVars >>

(* The timeout of poll() expires: the sleeper leaves the queue. *)
PollTimeout(c) ==
    /\ loaded
    /\ pc[c] = "blocked"
    /\ ~woken[c]
    /\ pc' = [pc EXCEPT ![c] = "idle"]
    /\ waitq' = waitq \ {c}
    /\ UNCHANGED << TRY_AI_BUG, loaded, current_channel, int_threshold_temp,
                    irq_fired, regVars, isrVars, mask, woken, ioVars,
                    readVars, platVars, ghostVars,
                    convVars, attachVars >>

my_poll(c) ==
    \/ PollWait(c) \/ PollTest(c) \/ PollClear(c)
    \/ PollReturn(c) \/ PollWake(c) \/ PollTimeout(c)

(* --------------------------- tsadc_char_exit --------------------------- *)
(* Hardware shutdown and release of the resources; the wait queue is not  *)
(* touched.                                                                *)
tsadc_char_exit ==
    /\ loaded
    /\ isr_pc = "idle"
    /\ reg_auto_con' = 0
    /\ reg_int_en' = 0
    /\ loaded' = FALSE
    /\ UNCHANGED << TRY_AI_BUG, devVars, reg_int_pd, reg_comp_int, isrVars,
                    pollVars, ioVars, readVars, platVars, ghostVars,
                    convVars, attachVars >>

(* ---------------- rk3588_tsadc_irq (tsadc_platform.c) ------------------ *)
(* rk3588_tsadc_initialize leaves TSADC_INT_EN = TSADC_INT_SRC_EN(id). *)
PlatHwRaise ==
    /\ p_bound
    /\ ~HasBit(p_int_pd, chip_id)
    /\ p_int_pd' = p_int_pd + BIT(chip_id)
    /\ UNCHANGED << TRY_AI_BUG, loaded, devVars, regVars, isrVars, pollVars,
                    ioVars, readVars, p_bound, chip_id, p_pc, p_val, p_wr, p_reads,
                    tz_updated, ghostVars,
                    convVars, attachVars >>

(* The value rk3588_tsadc_irq writes back to TSADC_INT_PD. *)
PlatAckValue(val, pd) == val

PlatIrqRead ==
    /\ p_bound
    /\ p_pc = "idle"
    /\ p_int_pd # 0
    /\ p_val' = p_int_pd
    /\ p_reads' = 1
    /\ p_pc' = "ack"
    /\ UNCHANGED << TRY_AI_BUG, loaded, devVars, regVars, isrVars, pollVars,
                    ioVars, readVars, p_bound, chip_id, p_int_pd, p_wr, tz_updated,
                    ghostVars,
                    convVars, attachVars >>

PlatIrqAck ==
    /\ p_bound
    /\ p_pc = "ack"
    /\ p_wr' = PlatAckValue(p_val, p_int_pd)
    /\ p_int_pd' = p_int_pd - BitAnd(p_int_pd, p_wr')
    /\ p_pc' = "test"
    /\ UNCHANGED << TRY_AI_BUG, loaded, devVars, regVars, isrVars, pollVars,
                    ioVars, readVars, p_bound, chip_id, p_val, p_reads, tz_updated,
                    ghostVars,
                    convVars, attachVars >>

(* thermal_zone_device_update when the sensor's own bit was pending. *)
PlatIrqTest ==
    /\ p_bound
    /\ p_pc = "test"
    /\ tz_updated' = (tz_updated
                      \/ BitAnd(p_val, TSADC_INT_SRC_MASK(chip_id)) # 0)
    /\ p_pc' = "idle"
    /\ UNCHANGED << TRY_AI_BUG, loaded, devVars, regVars, isrVars, pollVars,
                    ioVars, readVars, p_bound, chip_id, p_int_pd, p_val, p_wr,
                    p_reads, ghostVars,
                    convVars, attachVars >>

rk3588_tsadc_irq == PlatIrqRead \/ PlatIrqAck \/ PlatIrqTest

(* --------------------------- specifications ---------------------------- *)
NextOf(Cs) ==
    \/ my_ioctl
    \/ \E len \in ReadLens, raw \in RawCodes, fault \in BOOLEAN :
          my_read(len, raw, fault)
    \/ lseek_set0
    \/ \E ch \in Channels : HwRaise(ch)
    \/ tsadc_isr
    \/ \E c \in Cs : my_poll(c)
    \/ tsadc_char_exit
    \/ PlatHwRaise
    \/ rk3588_tsadc_irq

(* NumConsumers consumers on the character device. *)
Next == NextOf(Consumers)

Spec == Init /\ [][Next]_vars

(* A single consumer on the character device. *)
NextOne == NextOf({1})

SpecOne == Init /\ [][NextOne]_vars

(* One consumer that waits in poll() without a timeout, the calls that arm *)
(* and select channels, the hardware and the interrupt handler.            *)
InitWait ==
    /\ InitChar(TRUE) /\ InitPlat(FALSE, 0)
    /\ IdleConv
    /\ IdleAttach

NextWait ==
    \/ my_ioctl
    \/ \E ch \in Channels : HwRaise(ch)
    \/ tsadc_isr
    \/ PollWait(1)
    \/ PollTest(1)
    \/ PollClear(1)
    \/ PollReturn(1)
    \/ PollWake(1)

(* A handler that has started runs to its end; a consumer inside poll()    *)
(* that can run is scheduled.                                              *)
SpecWait ==
    /\ InitWait /\ [][NextWait]_vars
    /\ WF_vars(IsrAck \/ IsrTest \/ IsrWake)
    /\ WF_vars(PollTest(1) \/ PollClear(1) \/ PollReturn(1) \/ PollWake(1))

(* ------------------- the conversions on their own ---------------------- *)
(* Codes handed to the conversions: every value of the masked data         *)
(* register, the codes of both tables, and CodeMargin codes on either side.*)
CodeInputs ==
    (Entry(trm_code_table, Len(trm_code_table) - 1).code - CodeMargin)
        .. (TSADC_DATA_MASK + CodeMargin)

(* Values of the data register: raw & TSADC_DATA_MASK is the identity. *)
RawInputs == 0 .. TSADC_DATA_MASK

Applied(ret, temp, written) ==
    [applied |-> TRUE, ret |-> ret, temp |-> temp, written |-> written,
     mid |-> 0, broke |-> FALSE]

(* The table a function of the character driver / platform driver uses. *)
ConvTable(f) ==
    IF f \in {"code_to_temp", "my_read"}
    THEN rk3588_code_table(TRY_AI_BUG) ELSE trm_code_table

(* code_to_temp(cv_in, &temp) of tsadc.c *)
ConvCodeToTemp ==
    /\ ~cv_out["code_to_temp"].applied
    /\ LET r == code_to_temp(ConvTable("code_to_temp"), cv_in)
       IN  cv_out' = [cv_out EXCEPT !["code_to_temp"] =
                        [Applied(r.ret, r.temp, r.written)
                            EXCEPT !.mid = r.mid, !.broke = r.broke]]
    /\ UNCHANGED << cv_in, TRY_AI_BUG, baseVars, attachVars >>

(* rk3588_tsadc_code_to_temp(rk3588_code_table, cv_in, &temp) *)
ConvPlatCodeToTemp ==
    /\ ~cv_out["rk3588_tsadc_code_to_temp"].applied
    /\ LET r == rk3588_tsadc_code_to_temp(
                    ConvTable("rk3588_tsadc_code_to_temp"), cv_in)
       IN  cv_out' = [cv_out EXCEPT !["rk3588_tsadc_code_to_temp"] =
                        [Applied(r.ret, r.temp, r.written)
                            EXCEPT !.mid = r.mid, !.broke = r.broke]]
    /\ UNCHANGED << cv_in, TRY_AI_BUG, baseVars, attachVars >>

(* The sampling part of my_read with cv_in in the data register: the       *)
(* return value is the error surfaced, or 0 for a delivered temperature.   *)
ConvMyRead ==
    /\ cv_in \in RawInputs
    /\ ~cv_out["my_read"].applied
    /\ LET r == ReadTemp(ConvTable("my_read"), cv_in)
       IN  cv_out' = [cv_out EXCEPT !["my_read"] =
                        IF ReadSurfaces(r.ret)
                        THEN Applied(r.ret, 0, FALSE)
                        ELSE Applied(0, r.temp, TRUE)]
    /\ UNCHANGED << cv_in, TRY_AI_BUG, baseVars, attachVars >>

(* rk3588_tsadc_get_temp with cv_in in the data register *)
ConvGetTemp ==
    /\ cv_in \in RawInputs
    /\ ~cv_out["rk3588_tsadc_get_temp"].applied
    /\ LET r == rk3588_tsadc_get_temp(cv_in)
       IN  cv_out' = [cv_out EXCEPT !["rk3588_tsadc_get_temp"] =
                                      Applied(r.ret, r.temp, r.written)]
    /\ UNCHANGED << cv_in, TRY_AI_BUG, baseVars, attachVars >>

(* Temperatures handed to temp_to_code: the span of the default table and  *)
(* CodeMargin degrees on either side.                                      *)
TempInputs ==
    (Entry(default_code_table, Len(default_code_table) - 1).temp - CodeMargin)
        .. (Entry(default_code_table, 0).temp + CodeMargin)

(* temp_to_code(cv_in) of tsadc.c: ret holds the code returned. *)
ConvTempToCode ==
    /\ cv_in \in TempInputs
    /\ ~cv_out["temp_to_code"].applied
    /\ cv_out' = [cv_out EXCEPT !["temp_to_code"] =
                     Applied(temp_to_code(ConvTable("my_read"), cv_in),
                             0, FALSE)]
    /\ UNCHANGED << cv_in, TRY_AI_BUG, baseVars, attachVars >>

InitConv ==
    /\ InitChar(FALSE) /\ InitPlat(FALSE, 0)
    /\ IdleAttach
    /\ cv_in \in CodeInputs
    /\ cv_out = [f \in ConvFns |-> NotApplied]

NextConv ==
    \/ ConvCodeToTemp
    \/ ConvPlatCodeToTemp
    \/ ConvMyRead
    \/ ConvGetTemp
    \/ ConvTempToCode

(* Every code converted by every conversion function, in both builds. *)
SpecConv == InitConv /\ [][NextConv]_vars

(* ------------------------- attach and detach --------------------------- *)
(* A step of an attach or detach function: the call op; kind "acq" takes   *)
(* the resource res, "rel" gives it back, "cfg" writes the register res,   *)
(* "call" does neither; devm says the driver core gives the resource back; *)
(* onfail is the label taken when the call fails ("never": not checked);   *)
(* err is "fixed" where the code returns -ENOMEM itself.                   *)
Acq(op, res, onfail, err) ==
    [op |-> op, kind |-> "acq", res |-> res, devm |-> FALSE,
     onfail |-> onfail, err |-> err]

DevmAcq(op, res, onfail, err) ==
    [op |-> op, kind |-> "acq", res |-> res, devm |-> TRUE,
     onfail |-> onfail, err |-> err]

Call(op, onfail) ==
    [op |-> op, kind |-> "call", res |-> "", devm |-> FALSE,
     onfail |-> onfail, err |-> "callee"]

Cfg(op, res) ==
    [op |-> op, kind |-> "cfg", res |-> res, devm |-> FALSE,
     onfail |-> "never", err |-> "callee"]

Rel(op, res) ==
    [op |-> op, kind |-> "rel", res |-> res, devm |-> FALSE,
     onfail |-> "never", err |-> "callee"]

(* tsadc_char_init, in program order; the middle part is compiled only     *)
(* with TRY_AI_BUG.                                                        *)
tsadc_char_init_steps(bug) ==
    << Acq("kzalloc", "dev", "return", "fixed"),
       Acq("alloc_chrdev_region", "chrdev", "free_dev", "callee"),
       Acq("class_create", "class", "unreg_chrdev", "callee"),
       Acq("device_create", "device", "destroy_class", "callee"),
       Acq("cdev_add", "cdev", "destroy_device", "callee"),
       Acq("ioremap", "regs", "del_cdev", "fixed") >>
    \o (IF bug
        THEN << Acq("clk_get", "clk", "unmap_regs", "callee"),
                Acq("reset_control_get", "rst", "put_clk", "callee"),
                Acq("request_irq", "irq", "put_reset", "callee"),
                Acq("clk_prepare_enable", "clk_on", "free_irq", "callee"),
                Acq("reset_control_deassert", "rst_off", "never", "callee"),
                Cfg("writel_relaxed", "AUTO_PERIOD"),
                Cfg("writel_relaxed", "HIGHT_INT_DEBOUNCE") >>
        ELSE << >>)
    \o << Cfg("writel_relaxed", "AUTO_CON"),
          Acq("writel_relaxed START", "hw", "never", "callee") >>

(* The error path of tsadc_char_init: its labels and, label for label, the *)
(* call that follows each.                                                 *)
tsadc_char_init_labels ==
    << "free_irq", "put_reset", "put_clk", "unmap_regs", "del_cdev",
       "destroy_device", "destroy_class", "unreg_chrdev", "free_dev" >>

tsadc_char_init_errpath ==
    << Rel("free_irq", "irq"), Rel("reset_control_put", "rst"),
       Rel("clk_put", "clk"), Rel("iounmap", "regs"),
       Rel("cdev_del", "cdev"), Rel("device_destroy", "device"),
       Rel("class_destroy", "class"),
       Rel("unregister_chrdev_region", "chrdev"), Rel("kfree", "dev") >>

(* tsadc_char_exit, in program order; the same in both builds. *)
tsadc_char_exit_steps ==
    << Rel("writel_relaxed 0", "hw"), Cfg("writel_relaxed 0", "INT_EN"),
       Rel("reset_control_assert", "rst_off"),
       Rel("clk_disable_unprepare", "clk_on"),
       Rel("free_irq", "irq"), Rel("reset_control_put", "rst"),
       Rel("clk_put", "clk"), Rel("iounmap", "regs"),
       Rel("cdev_del", "cdev"), Rel("device_destroy", "device"),
       Rel("class_destroy", "class"),
       Rel("unregister_chrdev_region", "chrdev"), Rel("kfree", "dev") >>

(* rk3588_tsadc_initialize, in program order. *)
rk3588_tsadc_initialize_steps ==
    << Acq("clk_prepare_enable", "clk_on", "return", "callee"),
       Call("reset_control_assert", "err_disable_clk"),
       Acq("reset_control_deassert", "rst_off", "err_disable_clk", "callee"),
       Cfg("writel_relaxed", "AUTO_PERIOD"),
       Cfg("writel_relaxed", "AUTO_PERIOD_HT"),
       Cfg("writel_relaxed", "HIGHT_INT_DEBOUNCE"),
       Cfg("writel_relaxed", "HIGHT_TSHUT_DEBOUNCE"),
       Cfg("writel_relaxed", "AUTO_CON"),
       Cfg("writel_relaxed", "INT_EN"),
       Acq("writel_relaxed START", "hw", "never", "callee") >>

(* rk3588_tsadc_disable, in program order. *)
rk3588_tsadc_disable_steps ==
    << Rel("writel_relaxed 0", "hw"), Cfg("writel_relaxed 0", "INT_EN"),
       Rel("reset_control_assert", "rst_off"),
       Rel("clk_disable_unprepare", "clk_on") >>

(* rk3588_tsadc_probe, in program order, rk3588_tsadc_initialize inlined. *)
rk3588_tsadc_probe_steps ==
    << DevmAcq("devm_kzalloc", "chip", "return", "fixed"),
       DevmAcq("devm_platform_ioremap_resource", "regs", "return", "callee"),
       DevmAcq("devm_clk_get", "clk", "return", "callee"),
       DevmAcq("devm_reset_control_get_exclusive", "rst", "return", "callee"),
       Call("platform_get_irq", "return"),
       Call("of_property_read_u32", "return") >>
    \o rk3588_tsadc_initialize_steps
    \o << DevmAcq("devm_request_threaded_irq", "irq", "err_disable_hw",
                  "callee"),
          DevmAcq("devm_thermal_zone_of_sensor_register", "tz",
                  "err_disable_hw", "callee") >>

(* rk3588_tsadc_remove *)
rk3588_tsadc_remove_steps == rk3588_tsadc_disable_steps

(* The steps of the attach function of driver drv. *)
AttachSteps(drv, bug) ==
    IF drv = "char" THEN tsadc_char_init_steps(bug)
    ELSE rk3588_tsadc_probe_steps

(* The steps of the detach function of driver drv. *)
DetachSteps(drv) ==
    IF drv = "char" THEN tsadc_char_exit_steps
    ELSE rk3588_tsadc_remove_steps

(* The steps executed after a goto to label (plain return: none). *)
ErrorPath(drv, label) ==
    IF label = "return" THEN << >>
    ELSE IF drv = "char"
    THEN LET i == CHOOSE k \in 1 .. Len(tsadc_char_init_labels) :
                     tsadc_char_init_labels[k] = label
         IN  SubSeq(tsadc_char_init_errpath, i, Len(tsadc_char_init_errpath))
    ELSE IF label = "err_disable_clk"
    THEN << Rel("clk_disable_unprepare", "clk_on") >>
    ELSE rk3588_tsadc_disable_steps

(* The calls of an attach function whose failure the code checks. *)
FailPoints(drv, bug) ==
    { AttachSteps(drv, bug)[i].op : i \in
        { k \in 1 .. Len(AttachSteps(drv, bug)) :
             AttachSteps(drv, bug)[k].onfail # "never" } }

(* Error values a failing callee may return. *)
CalleeErrors == { -EINVAL, -ENOMEM }

LogEntry(st) == [op |-> st.op, kind |-> st.kind, res |-> st.res,
                 devm |-> st.devm]

(* The resources of the entries of kind k of a log, in order. *)
ResOf(log, k) ==
    LET sel == SelectSeq(log, LAMBDA e : e.kind = k)
    IN  [i \in 1 .. Len(sel) |-> sel[i].res]

Reverse(seq) == [i \in 1 .. Len(seq) |-> seq[Len(seq) + 1 - i]]

(* res has been acquired and not given back since. *)
Held(log, res) ==
    \E i \in 1 .. Len(log) :
       /\ log[i].kind = "acq" /\ log[i].res = res
       /\ \A j \in (i + 1) .. Len(log) :
             ~(log[j].kind = "rel" /\ log[j].res = res)

(* The device-managed resources still held, in acquisition order. *)
DevmPending(log) ==
    LET sel == SelectSeq(log, LAMBDA e : e.kind = "acq" /\ e.devm)
        all == [i \in 1 .. Len(sel) |-> sel[i].res]
    IN  SelectSeq(all, LAMBDA r : Held(log, r))

(* Where control is once the steps todo of the current phase are done:     *)
(* the driver core releases what is device-managed after a failed probe    *)
(* and after remove.                                                       *)
PhaseAfter(phase, todo, log, ret, leaving) ==
    IF todo # << >> THEN phase
    ELSE IF ~leaving THEN "attached"
    ELSE IF DevmPending(log) # << >> THEN "devm"
    ELSE IF ret # 0 THEN "failed" ELSE "detached"

(* The next call of the attach function succeeds. *)
AttachStepOk ==
    /\ at_pc = "attach"
    /\ Head(at_todo).op # at_fail
    /\ at_log' = Append(at_log, LogEntry(Head(at_todo)))
    /\ at_todo' = Tail(at_todo)
    /\ at_pc' = PhaseAfter("attach", at_todo', at_log', 0, FALSE)
    /\ UNCHANGED << at_drv, at_fail, at_ret,
                    TRY_AI_BUG, baseVars, convVars >>

(* The next call of the attach function fails: nothing is acquired, ret is *)
(* set and control goes to the call's label.                               *)
AttachStepFail ==
    /\ at_pc = "attach"
    /\ Head(at_todo).op = at_fail
    /\ \E e \in CalleeErrors :
          at_ret' = IF Head(at_todo).err = "fixed" THEN -ENOMEM ELSE e
    /\ at_todo' = ErrorPath(at_drv, Head(at_todo).onfail)
    /\ at_pc' = PhaseAfter("unwind", at_todo', at_log, at_ret', TRUE)
    /\ UNCHANGED << at_drv, at_fail, at_log,
                    TRY_AI_BUG, baseVars, convVars >>

(* One call of the error path. *)
UnwindStep ==
    /\ at_pc = "unwind"
    /\ at_log' = Append(at_log, LogEntry(Head(at_todo)))
    /\ at_todo' = Tail(at_todo)
    /\ at_pc' = PhaseAfter("unwind", at_todo', at_log', at_ret, TRUE)
    /\ UNCHANGED << at_drv, at_fail, at_ret,
                    TRY_AI_BUG, baseVars, convVars >>

(* One call of the detach function (tsadc_char_exit, rk3588_tsadc_remove); *)
(* the first one enters it.                                                *)
DetachStep ==
    /\ at_pc \in {"attached", "detach"}
    /\ LET todo == IF at_pc = "attached" THEN DetachSteps(at_drv)
                   ELSE at_todo
       IN  /\ at_log' = Append(at_log, LogEntry(Head(todo)))
           /\ at_todo' = Tail(todo)
           /\ at_pc' = PhaseAfter("detach", at_todo', at_log', at_ret, TRUE)
    /\ UNCHANGED << at_drv, at_fail, at_ret,
                    TRY_AI_BUG, baseVars, convVars >>

(* The driver core gives back the device-managed resource acquired last. *)
DevmRelease ==
    /\ at_pc = "devm"
    /\ LET pend == DevmPending(at_log)
       IN  at_log' = Append(at_log, [op |-> "devres_release", kind |-> "rel",
                                     res |-> pend[Len(pend)], devm |-> TRUE])
    /\ at_pc' = PhaseAfter("devm", << >>, at_log', at_ret, TRUE)
    /\ UNCHANGED << at_drv, at_fail, at_todo, at_ret,
                    TRY_AI_BUG, baseVars, convVars >>

(* Something has already used a handle during this attach / detach. *)
Used(log) == \E i \in 1 .. Len(log) : log[i].kind \in {"use", "misuse"}

(* A consumer's file operation (my_read, my_ioctl, my_poll) runs: possible *)
(* from cdev_add to cdev_del while the module is loading or loaded.  It    *)
(* reads or writes through dev->regs; the entry is "misuse" when the       *)
(* mapping or the device structure is not there.                           *)
FileOp ==
    /\ at_drv = "char"
    /\ at_pc \in {"attach", "unwind", "attached"}
    /\ Held(at_log, "cdev")
    /\ ~Used(at_log)
    /\ at_log' = Append(at_log,
                   [op |-> "my_read",
                    kind |-> IF Held(at_log, "regs") /\ Held(at_log, "dev")
                             THEN "use" ELSE "misuse",
                    res |-> "regs", devm |-> FALSE])
    /\ UNCHANGED << at_drv, at_pc, at_fail, at_todo, at_ret,
                    TRY_AI_BUG, baseVars, convVars >>

(* rk3588_tsadc_irq runs and finds the channel's bit pending: possible     *)
(* while the handler is bound and the controller runs with the channel's   *)
(* interrupt source enabled.  It passes chip->tzd to                       *)
(* thermal_zone_device_update; the entry is "misuse" when the thermal zone *)
(* is not registered.                                                      *)
ProbeIrq ==
    /\ at_drv = "plat"
    /\ Held(at_log, "irq") /\ Held(at_log, "hw")
    /\ ~Used(at_log)
    /\ at_log' = Append(at_log,
                   [op |-> "rk3588_tsadc_irq",
                    kind |-> IF Held(at_log, "tz") THEN "use" ELSE "misuse",
                    res |-> "tzd", devm |-> FALSE])
    /\ UNCHANGED << at_drv, at_pc, at_fail, at_todo, at_ret,
                    TRY_AI_BUG, baseVars, convVars >>

(* An attach starts: either driver, either build of the character driver,  *)
(* any one checked call failing or none.                                   *)
InitAttach ==
    /\ InitChar(FALSE) /\ InitPlat(FALSE, 0)
    /\ IdleConv
    /\ at_drv \in {"char", "plat"}
    /\ at_drv = "plat" => ~TRY_AI_BUG
    /\ at_pc = "attach"
    /\ at_fail \in FailPoints(at_drv, TRY_AI_BUG) \cup {"none"}
    /\ at_todo = AttachSteps(at_drv, TRY_AI_BUG)
    /\ at_log = << >>
    /\ at_ret = 0

NextAttach ==
    \/ AttachStepOk
    \/ AttachStepFail
    \/ UnwindStep
    \/ DetachStep
    \/ DevmRelease
    \/ FileOp
    \/ ProbeIrq

(* Attach, with or without a failing call, followed by detach. *)
SpecAttach == InitAttach /\ [][NextAttach]_vars

(* ------------------------------ properties ----------------------------- *)
(* C1: on every run of the interrupt handler (tsadc_isr, rk3588_tsadc_irq) *)
(* TSADC_INT_PD is read once and the value written back to it is exactly   *)
(* the value read, whatever the pending value and the active channel.      *)
C1_AckEqualsRead ==
    /\ isr_reads <= 1 /\ p_reads <= 1
    /\ (isr_reads = 1 /\ isr_pc # "ack") => isr_wr = isr_val
    /\ (p_reads = 1 /\ p_pc # "ack") => p_wr = p_val

(* tsadc_isr has acknowledged its value while a later bit stays pending.   *)
C1_Witness ==
    /\ isr_pc = "test" /\ isr_val # 0 /\ isr_wr = isr_val
    /\ reg_int_pd # 0 /\ current_channel # 0

(* C2: on dispatch every channel whose bit is set in the value read gets   *)
(* its event flagged and the waiters woken, also a channel that was armed  *)
(* and is no longer the active one.                                        *)
C2_EveryPendingBitFlagged ==
    [][(IsrTest /\ isr_val # 0) => (irq_fired' /\ isr_pc' = "wake")]_vars

C4_AtMostOneObserver == observers <= 1

(* C5: a consumer asleep on the wait queue when tsadc_char_exit runs has   *)
(* been woken by the teardown.                                             *)
C5_ExitReleasesWaiters ==
    ~loaded => \A c \in Consumers : pc[c] = "blocked" => woken[c]

(* C6: my_poll reports readable only if a dispatch containing the bit of   *)
(* the channel active at the poll occurred since the flag was last cleared.*)
C6_ReadableOnlyForActive ==
    [][\A c \in Consumers :
          (PollTest(c) /\ irq_fired) => current_channel \in evt_chans]_vars

(* C7: SET_CHANNEL with an id outside [0, TSADC_MAX_CHANNELS) returns      *)
(* -EINVAL and changes neither the device structure nor a register; with   *)
(* an id inside it returns 0 and makes the id the active channel.          *)
C7_SetChannelRange ==
    [][\A id \in ChannelIds :
          ioctl_SET_CHANNEL(id, FALSE) =>
             IF id >= 0 /\ id < TSADC_MAX_CHANNELS
             THEN io_ret' = 0 /\ current_channel' = id
             ELSE io_ret' = -EINVAL /\ UNCHANGED << devVars, regVars >>]_vars

(* A valid SET_CHANNEL(7) followed by a rejected one. *)
C7_Witness == io_ret = -EINVAL /\ current_channel = 7 /\ lastSet = 7

(* C8: the active channel is always within [0, TSADC_MAX_CHANNELS) and is  *)
(* the id of the most recent successful SET_CHANNEL (0 if none);           *)
(* GET_CHANNEL returns it and changes no device state.                     *)
C8_Selector ==
    /\ [](current_channel \in Channels /\ current_channel = lastSet)
    /\ [][ioctl_GET_CHANNEL(FALSE) =>
            /\ io_ret' = 0 /\ io_out' = lastSet
            /\ UNCHANGED << devVars, regVars >>]_vars

(* GET_CHANNEL returned 5 after SET_CHANNEL(5). *)
C8_Witness == io_out = 5 /\ lastSet = 5 /\ current_channel = 5 /\ io_ret = 0

(* C9: a successful SET_CHANNEL changes only the active-channel selector:  *)
(* threshold, event flag and every register stay as they were.             *)
C9_SetChannelFrame ==
    [][\A id \in Channels :
          ioctl_SET_CHANNEL(id, FALSE) =>
             UNCHANGED << int_threshold_temp, irq_fired, waitq, regVars >>]_vars

(* Channel 0 was armed, then the active channel was switched to 1. *)
C9_Witness ==
    /\ current_channel = 1 /\ lastSet = 1 /\ io_ret = 0
    /\ reg_comp_int[0] # 0 /\ reg_int_en = TSADC_INT_SRC_EN(0)

(* C10: SET_INT_THRESHOLD(t) writes temp_to_code(t) to the comparator of   *)
(* the channel active at the call, sets that channel's bit in TSADC_INT_EN,*)
(* records t, and writes no other channel's comparator.                    *)
C10_ThresholdOnActive ==
    [][\A t \in Temps :
          ioctl_SET_INT_THRESHOLD(t, FALSE) =>
             /\ reg_comp_int'[current_channel] =
                   temp_to_code(rk3588_code_table(TRY_AI_BUG), t)
             /\ HasBit(reg_int_en', current_channel)
             /\ int_threshold_temp' = t
             /\ \A ch \in Channels \ {current_channel} :
                   reg_comp_int'[ch] = reg_comp_int[ch]]_vars

(* Channel 3 was selected and armed at 30 C with the default table. *)
C10_Witness ==
    /\ current_channel = 3 /\ int_threshold_temp = 30 /\ ~TRY_AI_BUG
    /\ reg_comp_int[3] = 350 /\ reg_int_en = TSADC_INT_SRC_EN(3)

(* C11: a read session is one-shot.  While the file offset is positive     *)
(* every my_read returns 0 without reading the data register and leaves    *)
(* the offset alone; a positive count is returned only from offset 0 and   *)
(* leaves the offset positive; the offset goes back only to 0 (lseek), and *)
(* from offset 0 a my_read with a large enough buffer samples again; a     *)
(* my_read that fails (code out of range, copy fault) keeps the offset.    *)
C11_OneShotPerSession ==
    [][/\ \A len \in ReadLens, raw \in RawCodes, fault \in BOOLEAN :
             my_read(len, raw, fault) =>
                /\ off > 0 => (rd_ret' = 0 /\ ~rd_sampled' /\ off' = off)
                /\ (off = 0 /\ len >= MIN_READ_LEN) => rd_sampled'
                /\ rd_ret' > 0 => (off = 0 /\ off' > 0 /\ rd_sampled')
                /\ rd_ret' <= 0 => off' = off
       /\ off' < off => off' = 0]_vars

(* A second my_read of the same session has returned 0 without sampling. *)
C11_Witness ==
    /\ off > 0 /\ rd_ret = 0 /\ ~rd_sampled /\ rd_text # << >>

(* C12: with the default table, a my_read whose masked code converts to    *)
(* -EAGAIN never returns -EAGAIN and, the copy succeeding, returns the     *)
(* text of the floor value -40; a my_read whose code converts to -EINVAL   *)
(* returns -EINVAL and delivers no text and keeps the offset.              *)
C12_NotReadySubstituted ==
    [][\A len \in ReadLens, raw \in RawCodes, fault \in BOOLEAN :
          (my_read(len, raw, fault) /\ ~TRY_AI_BUG /\ off = 0
             /\ len >= MIN_READ_LEN) =>
             LET r == code_to_temp(default_code_table,
                                   BitAnd(raw, TSADC_DATA_MASK))
             IN  /\ r.ret = -EAGAIN =>
                       /\ rd_ret' # -EAGAIN
                       /\ ~fault => /\ rd_ret' = 4
                                    /\ rd_text' = << "-", "4", "0", "\n" >>
                 /\ r.ret = -EINVAL =>
                       /\ rd_ret' = -EINVAL
                       /\ rd_text' = rd_text /\ off' = off]_vars

(* The floor value has been delivered for a code above the default table. *)
C12_Witness ==
    /\ ~TRY_AI_BUG /\ rd_ret = 4 /\ rd_text = << "-", "4", "0", "\n" >>
    /\ off = 4 /\ rd_sampled

(* C13 as stated: for every code at or above the code of entry 0 of the   *)
(* table (395 in the default table, 3800 in the TRM table), the code equal *)
(* to it included, the conversion returns -EAGAIN.                         *)
C13_AtOrAboveFirstNotReady ==
    \A f \in {"code_to_temp", "rk3588_tsadc_code_to_temp"} :
       (cv_out[f].applied /\ cv_in >= Entry(ConvTable(f), 0).code) =>
          cv_out[f].ret = -EAGAIN

(* C13 amended: for every code strictly above the code of entry 0 the      *)
(* conversion returns -EAGAIN and writes no temperature; the code equal to *)
(* entry 0's code is converted: the conversion returns 0 and writes one.   *)
C13_AboveFirstNotReady ==
    \A f \in {"code_to_temp", "rk3588_tsadc_code_to_temp"} :
       cv_out[f].applied =>
          /\ cv_in > Entry(ConvTable(f), 0).code =>
                (cv_out[f].ret = -EAGAIN /\ ~cv_out[f].written)
          /\ cv_in = Entry(ConvTable(f), 0).code =>
                (cv_out[f].ret = 0 /\ cv_out[f].written)

(* code_to_temp has classified 396, one above the default table. *)
C13_Witness ==
    /\ ~TRY_AI_BUG /\ cv_in = 396
    /\ cv_out["code_to_temp"].applied
    /\ cv_out["code_to_temp"].ret = -EAGAIN

(* C14: for every code below the code of the last entry of the table (215  *)
(* in the default table) code_to_temp and rk3588_tsadc_code_to_temp return *)
(* -EINVAL and write no temperature.                                       *)
C14_BelowLastInvalid ==
    \A f \in {"code_to_temp", "rk3588_tsadc_code_to_temp"} :
       (cv_out[f].applied
          /\ cv_in < Entry(ConvTable(f), Len(ConvTable(f)) - 1).code) =>
          (cv_out[f].ret = -EINVAL /\ ~cv_out[f].written)

(* code_to_temp has classified 214, one below the default table. *)
C14_Witness ==
    /\ ~TRY_AI_BUG /\ cv_in = 214
    /\ cv_out["code_to_temp"].applied
    /\ cv_out["code_to_temp"].ret = -EINVAL

(* C15: a code equal to the code of a table entry converts to exactly that *)
(* entry's temperature, by code_to_temp over the default table and by      *)
(* rk3588_tsadc_code_to_temp over the 16-entry table.                      *)
C15_ExactAtEntries ==
    /\ (~TRY_AI_BUG /\ cv_out["code_to_temp"].applied) =>
          \A i \in 0 .. (Len(default_code_table) - 1) :
             cv_in = Entry(default_code_table, i).code =>
                /\ cv_out["code_to_temp"].ret = 0
                /\ cv_out["code_to_temp"].temp
                      = Entry(default_code_table, i).temp
    /\ cv_out["rk3588_tsadc_code_to_temp"].applied =>
          \A i \in 0 .. (Len(trm_code_table) - 1) :
             cv_in = Entry(trm_code_table, i).code =>
                /\ cv_out["rk3588_tsadc_code_to_temp"].ret = 0
                /\ cv_out["rk3588_tsadc_code_to_temp"].temp
                      = Entry(trm_code_table, i).temp

(* C16: for a raw value that the conversion of my_read and the conversion  *)
(* of rk3588_tsadc_get_temp both classify as not ready, both return        *)
(* success and report the same floor temperature.                          *)
C16_SameFloorPolicy ==
    (/\ cv_out["my_read"].applied
     /\ cv_out["rk3588_tsadc_get_temp"].applied
     /\ AboveRange(ConvTable("my_read"), cv_in)
     /\ AboveRange(ConvTable("rk3588_tsadc_get_temp"), cv_in)) =>
       /\ cv_out["my_read"].ret = 0
       /\ cv_out["rk3588_tsadc_get_temp"].ret = 0
       /\ cv_out["my_read"].temp = cv_out["rk3588_tsadc_get_temp"].temp

(* C17: while an attach runs (tsadc_char_init built with TRY_AI_BUG,      *)
(* rk3588_tsadc_probe) and after it, the clock is enabled only with the    *)
(* registers mapped, the reset deasserted only with the clock enabled, the *)
(* interrupt handler bound only with the clock enabled and the reset       *)
(* deasserted, and the hardware programmed, its interrupt source enabled   *)
(* or the conversion started only with the handler bound.                  *)
C17_AttachOrder ==
    (at_pc \in {"attach", "attached"} /\ (at_drv = "plat" \/ TRY_AI_BUG)) =>
       /\ Held(at_log, "clk_on") => Held(at_log, "regs")
       /\ Held(at_log, "rst_off") => Held(at_log, "clk_on")
       /\ Held(at_log, "irq") =>
             (Held(at_log, "clk_on") /\ Held(at_log, "rst_off"))
       /\ (Held(at_log, "hw") \/ ResOf(at_log, "cfg") # << >>) =>
             Held(at_log, "irq")

(* C18: when an attach has failed and returned, its return value is a      *)
(* negative error code, and the resources given back are exactly the ones  *)
(* acquired before the failing call, each once, in the reverse of the      *)
(* order of their acquisition.                                             *)
C18_FailedAttachUnwinds ==
    at_pc = "failed" =>
       /\ at_ret < 0
       /\ ResOf(at_log, "rel") = Reverse(ResOf(at_log, "acq"))

(* C19: when a detach after a successful attach has completed, the         *)
(* resources given back are exactly the ones the attach acquired, each     *)
(* once, in the reverse of the order of their acquisition, in both builds  *)
(* of the character driver and in the platform driver.                     *)
C19_DetachReleasesInReverse ==
    at_pc = "detached" =>
       ResOf(at_log, "rel") = Reverse(ResOf(at_log, "acq"))

(* C20: tsadc_isr never sets irq_fired while a consumer is between the    *)
(* test of the flag and its clear in my_poll.                              *)
C20_NoSetBetweenTestAndClear ==
    [][(IsrTest /\ IsrHit(isr_val, current_channel)) =>
          \A c \in Consumers : pc[c] # "clear"]_vars

(* C21: in every run of tsadc_isr that signals an event the write-back to *)
(* TSADC_INT_PD is done before irq_fired is set and irq_fired is set       *)
(* before the wake-up; at every wake-up issued by tsadc_isr irq_fired is   *)
(* true.                                                                   *)
C21_AckFlagWakeOrder ==
    [][/\ (IsrTest /\ IsrHit(isr_val, current_channel)) =>
             (isr_wr = isr_val /\ isr_reads = 1)
       /\ IsrWake => (isr_wr = isr_val /\ irq_fired)]_vars

(* C21 amended: in every run of tsadc_isr that signals an event the       *)
(* write-back to TSADC_INT_PD is done before irq_fired is set, and the run *)
(* reaches its wake-up only through the statement that sets irq_fired; the *)
(* flag is true when that statement has executed, not necessarily still at *)
(* the wake-up.                                                            *)
C21_AckThenFlagThenWake ==
    [][/\ (IsrTest /\ IsrHit(isr_val, current_channel)) =>
             (isr_wr = isr_val /\ isr_reads = 1)
       /\ (isr_pc' = "wake" /\ isr_pc # "wake") =>
             (isr_pc = "test" /\ irq_fired' /\ isr_wr' = isr_val')
       /\ IsrWake => (isr_pc = "wake" /\ isr_wr = isr_val)]_vars

(* A dispatch has acknowledged and set the flag and is about to wake. *)
C21_Witness ==
    /\ isr_pc = "wake" /\ irq_fired /\ isr_val # 0 /\ isr_wr = isr_val

(* C22: for every code the default table accepts (215 .. 395) the search  *)
(* of code_to_temp ends through its break with an index mid in 1 .. n-1    *)
(* whose interval brackets the code; the result is                         *)
(* temp_lo + (c - code_lo) * (temp_hi - temp_lo) / (code_hi - code_lo)     *)
(* with truncating division, lo = table[mid], hi = table[mid - 1]; it lies *)
(* between temp_lo and temp_hi and does not decrease as the code grows.    *)
C22_BracketAndInterpolation ==
    LET T == default_code_table
        r == cv_out["code_to_temp"]
        lo == Entry(T, r.mid)
        hi == Entry(T, r.mid - 1)
    IN  (/\ ~TRY_AI_BUG /\ r.applied
         /\ cv_in >= Entry(T, Len(T) - 1).code
         /\ cv_in <= Entry(T, 0).code) =>
           /\ r.ret = 0 /\ r.broke
           /\ r.mid \in 1 .. (Len(T) - 1)
           /\ lo.code <= cv_in /\ cv_in <= hi.code
           /\ r.temp = lo.temp + ((cv_in - lo.code) * (hi.temp - lo.temp))
                                    \div (hi.code - lo.code)
           /\ lo.temp <= r.temp /\ r.temp <= hi.temp
           /\ cv_in > Entry(T, Len(T) - 1).code =>
                 code_to_temp(T, cv_in - 1).temp <= r.temp

(* code_to_temp has interpolated 320 inside the interval 285 .. 350. *)
C22_Witness ==
    /\ ~TRY_AI_BUG /\ cv_in = 320
    /\ cv_out["code_to_temp"].applied /\ cv_out["code_to_temp"].mid = 2
    /\ cv_out["code_to_temp"].temp = 57

(* C23 as stated: when the code equals the code of an interior entry k of  *)
(* the default table (350, 285), the search of code_to_temp stops with     *)
(* mid - 1 = k.                                                            *)
C23_TieBreakLowerIndex ==
    (~TRY_AI_BUG /\ cv_out["code_to_temp"].applied) =>
       \A k \in 1 .. (Len(default_code_table) - 2) :
          cv_in = Entry(default_code_table, k).code =>
             cv_out["code_to_temp"].mid - 1 = k

(* C23 amended: when the code equals the code of an interior entry k, the  *)
(* search stops through its break at the first probed index that adjoins   *)
(* k, which is k or k + 1 (350: mid = 2 = k + 1; 285: mid = 2 = k); with   *)
(* the default table the result is entry k's temperature either way.       *)
C23_TieBreakFirstProbe ==
    LET T == ConvTable("code_to_temp")
        r == cv_out["code_to_temp"]
    IN  r.applied =>
           /\ \A k \in 1 .. (Len(T) - 2) :
                 cv_in = Entry(T, k).code =>
                    /\ r.ret = 0 /\ r.broke
                    /\ r.mid \in {k, k + 1}
                    /\ ~TRY_AI_BUG => r.temp = Entry(T, k).temp
           /\ (~TRY_AI_BUG /\ cv_in \in {350, 285}) => r.mid = 2

(* code_to_temp has converted 285, the code of interior entry 2, through   *)
(* the interval whose upper index is 2.                                    *)
C23_Witness ==
    /\ ~TRY_AI_BUG /\ cv_in = 285
    /\ cv_out["code_to_temp"].applied /\ cv_out["code_to_temp"].mid = 2
    /\ cv_out["code_to_temp"].temp = 25

(* C24: with the default table temp_to_code returns, for every            *)
(* temperature, a code that appears in the table, the code of the upper    *)
(* entry of the interval that contains the temperature, and for every      *)
(* temperature below the lowest table temperature (-40) the code paired    *)
(* with the lowest temperature (215).                                      *)
C24_TempToCodeSaturatesCold ==
    LET T == default_code_table
        r == cv_out["temp_to_code"]
    IN  (~TRY_AI_BUG /\ r.applied) =>
           /\ \E i \in 0 .. (Len(T) - 1) : r.ret = Entry(T, i).code
           /\ \A i \in 0 .. (Len(T) - 2) :
                 (cv_in <= Entry(T, i).temp /\ cv_in > Entry(T, i + 1).temp)
                    => r.ret = Entry(T, i).code
           /\ cv_in < Entry(T, Len(T) - 1).temp =>
                 r.ret = Entry(T, Len(T) - 1).code

(* C25: no lost wake-up.  With one consumer, whenever the consumer is     *)
(* inside poll() and irq_fired is true, the consumer eventually returns    *)
(* from poll() with the readable mask; and it is never asleep with the     *)
(* flag true unless its wake-up has been issued or is the handler's next   *)
(* statement.                                                              *)
C25_NoLostWakeup ==
    /\ (pc[1] # "idle" /\ irq_fired) ~> (pc[1] = "idle" /\ mask[1] = READABLE)
    /\ []((pc[1] = "blocked" /\ irq_fired) => (woken[1] \/ isr_pc = "wake"))

(* The consumer sleeps, the flag is set and its wake-up has been issued. *)
C25_Witness ==
    /\ pc[1] = "blocked" /\ irq_fired /\ woken[1] /\ mask[1] = 0

(* C26: no my_ioctl call clears a bit of TSADC_INT_EN: a channel whose     *)
(* interrupt source has been enabled by TSADC_SET_INT_THRESHOLD stays      *)
(* enabled through every later TSADC_SET_CHANNEL and                       *)
(* TSADC_SET_INT_THRESHOLD.                                                *)
C26_ArmingKeepsOthersArmed ==
    [][my_ioctl =>
          \A ch \in Channels :
             HasBit(reg_int_en, ch) => HasBit(reg_int_en', ch)]_vars

(* C27: no file operation of a consumer runs while dev->regs is unmapped  *)
(* or the device structure is freed: whenever the character device is      *)
(* reachable (from cdev_add to cdev_del) the mapping and the structure are *)
(* held, during tsadc_char_init, on its error path and in tsadc_char_exit. *)
C27_FileOpsSeeMappedRegs ==
    at_drv = "char" =>
       /\ \A i \in 1 .. Len(at_log) : at_log[i].kind # "misuse"
       /\ Held(at_log, "cdev") =>
             (Held(at_log, "regs") /\ Held(at_log, "dev"))

(* C28: in the platform driver no run of rk3588_tsadc_irq that finds the   *)
(* channel's bit pending takes place while the handler is bound and        *)
(* chip->tzd has not been assigned by the thermal-zone registration.       *)
C28_IrqSeesThermalZone ==
    at_drv = "plat" =>
       \A i \in 1 .. Len(at_log) : at_log[i].kind # "misuse"

(* C29: at every my_read that samples the data register of the active    *)
(* channel c, the bit TSADC_AUTO_CON_SRC_EN(c) is set in TSADC_AUTO_CON.   *)
C29_SampledChannelEnabled ==
    [][\A len \in ReadLens, raw \in RawCodes, fault \in BOOLEAN :
          (my_read(len, raw, fault) /\ rd_sampled') =>
             BitAnd(reg_auto_con, TSADC_AUTO_CON_SRC_EN(current_channel)) # 0
      ]_vars

(* C30: the offset TSADC_SET_INT_THRESHOLD writes, TSADC_COMP_INT of the   *)
(* active channel, is the offset TSADC_DATA(c) of no channel c, and in the *)
(* platform driver's register map the offset TSADC_DATA(chip->id) that     *)
(* rk3588_tsadc_get_temp reads is the offset TSADC_COMP_INT(c) of no       *)
(* channel c.                                                              *)
C30_DataAndComparatorDisjoint ==
    [][/\ \A temp \in Temps :
             ioctl_SET_INT_THRESHOLD(temp, FALSE) =>
                \A c \in Channels :
                   TSADC_DATA(c)
                      # TSADC_COMP_INT(ThresholdChannel(current_channel))
       /\ p_bound =>
             \A c \in Channels :
                PLAT_TSADC_DATA(chip_id) # PLAT_TSADC_COMP_INT(c)]_vars

(* C31: temp_to_code is monotonic over the default table: the code it      *)
(* returns for a temperature is at least the code it returns for every     *)
(* temperature that is not higher, and at most the code it returns for     *)
(* every temperature that is not lower.                                    *)
C31_TempToCodeMonotonic ==
    LET T == default_code_table
        r == cv_out["temp_to_code"]
    IN  (~TRY_AI_BUG /\ r.applied) =>
           \A t \in TempInputs :
              /\ t <= cv_in => temp_to_code(T, t) <= r.ret
              /\ cv_in <= t => r.ret <= temp_to_code(T, t)

TypeOK ==
    /\ current_channel \in Int
    /\ isr_pc \in {"idle", "ack", "test", "wake"}
    /\ \A c \in Consumers :
          pc[c] \in {"idle", "test", "clear", "ret", "blocked"}

====
